---- MODULE Spec2Model ----
(***************************************************************************)
(* A model of the task-management backend of src/app: the four tables of   *)
(* models.py (user, project, task, membership), the Flask session of the   *)
(* client, and one action per endpoint of __init__.py.                     *)
(*                                                                         *)
(* Conventions.                                                            *)
(*  - A table is a function from the primary keys stored to the row.       *)
(*  - Python's None and an absent session key are the empty set; a present *)
(*    value v is {v}.                                                      *)
(*  - An ORM object is the pair of its class and its primary key, which is *)
(*    what SQLAlchemy's identity map (and so Python's ==, hash and `in`)   *)
(*    distinguishes inside one session.                                    *)
(*  - An endpoint is an operator from the request (the client's session    *)
(*    and the arguments) and the stored tables to a response: the HTTP     *)
(*    status, the JSON body, the tables as committed, and the session key  *)
(*    afterwards.  An exception that leaves the `with` block closes the    *)
(*    ORM session without commit, so the tables stay as they were, and     *)
(*    Flask answers 500.                                                   *)
(*  - SQLite does not enforce foreign keys unless asked to (the code never *)
(*    asks), it does enforce NOT NULL and UNIQUE, and it gives a new row   *)
(*    of an INTEGER PRIMARY KEY table the largest key stored plus one.     *)
(*  - Of a task's raw data fields, title (required) and is_done (default   *)
(*    False) are kept; description and due_timestamp are nullable fields   *)
(*    handled exactly like title by every endpoint and are left out.       *)
(*  - The session cookie is an input of a request like its arguments: the  *)
(*    state machine follows one client's cookie, and the properties range  *)
(*    over every cookie a client may hold, the one of a user deleted since *)
(*    (through another client) included.                                   *)
(***************************************************************************)
EXTENDS Integers, FiniteSets, Sequences, TLC

\* ---------------------------------------------------------------- bounds
MaxTasks == 2
MaxUsers == 2
MaxProjects == 3

\* ------------------------------------------------- models.py: AccessLevel
READER == 1
EDITOR == 2
MANAGER == 3

AccessLevel == {READER, EDITOR, MANAGER}

\* ------------------------------------------------------ sets of inputs
Names == {"n1", "n2"}
Emails == {"e1", "e2", "e3"}
Passwords == {"pw1", "pw2"}
Titles == {"t1", "t2"}
ProjectTitles == {"p1", "p2"}

None == {}

VARIABLES users, projects, tasks, memberships, session, last

vars == <<users, projects, tasks, memberships, session, last>>

\* The stored tables, as one value.
DB == [users |-> users, projects |-> projects, tasks |-> tasks,
       memberships |-> memberships]

\* ------------------------------------------------------------ helpers
Max(S) == CHOOSE x \in S : \A y \in S : y <= x

Min(S) == CHOOSE x \in S : \A y \in S : x <= y

The(opt) == CHOOSE x \in opt : TRUE

\* The key SQLite gives the next row of a table.
NextId(tbl) == IF DOMAIN tbl = {} THEN 1 ELSE Max(DOMAIN tbl) + 1

\* session.add(row) and flush.
Insert(tbl, id, row) == [k \in DOMAIN tbl \cup {id} |-> IF k = id THEN row ELSE tbl[k]]

\* session.delete(row) and flush.
Remove(tbl, id) == [k \in DOMAIN tbl \ {id} |-> tbl[k]]

\* An ORM object: its class and primary key.
Obj(cls, id) == [cls |-> cls, id |-> id]

\* What a raised exception leaves in place of a value.
AttributeError == [error |-> "AttributeError"]

\* ------------------------------------------------------------ models.py
\* Task.subtasks: the tasks whose supertask_id is this task's id.
Subtasks(T, id) == {k \in DOMAIN T : T[k].supertask_id = {id}}

\* Project.tasks
ProjectTasks(T, pid) == {k \in DOMAIN T : T[k].project_id = pid}

\* Project.team: a set of Membership objects.
Team(M, pid) == {Obj("Membership", m) : m \in {k \in DOMAIN M : M[k].project_id = pid}}

\* User.projects: a list of Membership objects.
UserProjects(M, uid) == {Obj("Membership", m) : m \in {k \in DOMAIN M : M[k].user_id = uid}}

\* Task.full_repr: task.as_dict() does not exist, so a task with subtasks raises.
Task_full_repr(T, id) ==
    IF Subtasks(T, id) # {} THEN AttributeError
    ELSE [id |-> id, project_id |-> T[id].project_id, title |-> T[id].title,
          is_done |-> T[id].is_done, subtasks |-> <<>>]

\* Task.shallow_repr: the same body without project_id.
Task_shallow_repr(T, id) ==
    IF Subtasks(T, id) # {} THEN AttributeError
    ELSE [id |-> id, title |-> T[id].title, is_done |-> T[id].is_done,
          subtasks |-> <<>>]

\* Project.full_repr: Membership has no shallow_repr, so a project with a
\* team raises, as does one of whose tasks has subtasks.
Project_full_repr(P, T, M, pid) ==
    IF \E t \in ProjectTasks(T, pid) : Task_shallow_repr(T, t) = AttributeError
      THEN AttributeError
    ELSE IF Team(M, pid) # {} THEN AttributeError
    ELSE [id |-> pid, title |-> P[pid].title,
          default_access_level_int |-> P[pid].default_access_level_int,
          tasks |-> {Task_shallow_repr(T, t) : t \in ProjectTasks(T, pid)},
          team |-> {}]

\* User.full_repr: Membership has no shallow_repr either.
User_full_repr(U, M, uid) ==
    IF UserProjects(M, uid) # {} THEN AttributeError
    ELSE [id |-> uid, name |-> U[uid].name, email |-> U[uid].email,
          projects |-> {}]

\* argon2's PasswordHasher.verify(hash, password): the stored hash stands
\* for the password it was made from (create_with_cleartext_password stores
\* nothing else), any other string is no hash; fault is a failure of the
\* library that is no mismatch.
hasher_verify(hash, password, fault) ==
    IF hash \notin Passwords THEN "InvalidHashError"
    ELSE IF fault THEN "VerificationError"
    ELSE IF hash = password THEN "ok" ELSE "VerifyMismatchError"

\* User.verify_password: only VerifyMismatchError returns False; the other
\* two exceptions are passed over and the method goes on to return True.
verify_password(hash, password, fault) ==
    hasher_verify(hash, password, fault) # "VerifyMismatchError"

\* check_needs_rehash(self.password_hash), which verify_password calls
\* outside the try block, reads the parameters of the hash and raises
\* InvalidHashError for a string that is no hash.
verify_password_raises(hash, password, fault) ==
    hasher_verify(hash, password, fault) = "InvalidHashError"


\* ------------------------------------------------- __init__.py: responses
OKBody == [text |-> "OK"]

ErrorBody == [text |-> "error"]

\* A response: status, body, the tables as committed, the session key after.
Resp(status, body, db, sess) == [status |-> status, body |-> body, db |-> db, sess |-> sess]

\* flask.abort(code), and an uncaught exception (500): nothing is committed.
Abort(code, sess) == Resp(code, ErrorBody, DB, sess)

\* setattr(row, key, value) for the keys of the body that are in `allowed`.
Patch(row, json, allowed) ==
    [k \in DOMAIN row |-> IF k \in DOMAIN json /\ k \in allowed THEN json[k] ELSE row[k]]

\* The levels of the memberships of a pair.
MemberLevels_of(M, uid, pid) ==
    {M[m].access_level_int :
        m \in {k \in DOMAIN M : M[k].user_id = uid /\ M[k].project_id = pid}}

\* get_access_level: the level of the first membership of the pair, or None
\* for flask.abort(403).
get_access_level(M, uid, pid) ==
    LET rows == {m \in DOMAIN M : M[m].user_id = uid /\ M[m].project_id = pid}
    IN  IF rows = {} THEN None ELSE {M[Min(rows)].access_level_int}

\* Mutants of AtLeast: a comparison one level too lenient, and an equality.
AtLeast_off_by_one(level, required) == level + 1 >= required

AtLeast_exact(level, required) == level = required

\* `level >= required` on the IntEnum.
AtLeast(level, required) == level >= required

\* ------------------------------------------------------------- login
login(sess, form, fault) ==
    LET found == {u \in DOMAIN users : users[u].email = form.email}
    IN  IF found = {} THEN Abort(404, sess)
        ELSE IF verify_password_raises(users[The(found)].password_hash, form.password, fault)
               THEN Abort(500, sess)
        ELSE IF verify_password(users[The(found)].password_hash, form.password, fault)
               THEN Resp(200, OKBody, DB, found)
        ELSE Abort(403, sess)

\* ------------------------------------------------------------- tasks
\* models.Task(**flask.request.json); is_done takes the column's default.
NewTask(json) ==
    [project_id |-> json.project_id, supertask_id |-> json.supertask_id,
     title |-> json.title, is_done |-> FALSE]

create_task_view(sess, json) ==
    LET uid == The(sess)
        pid == json.project_id
    IN  IF pid \notin DOMAIN projects \/ uid \notin DOMAIN users THEN Abort(404, sess)
        ELSE LET level == get_access_level(memberships, uid, pid)
             IN  IF level = None THEN Abort(403, sess)
                 ELSE IF AtLeast(The(level), EDITOR)
                   THEN LET id == NextId(tasks)
                            flushed == Insert(tasks, id, NewTask(json))
                            repr == Task_full_repr(flushed, id)
                        IN  IF repr = AttributeError THEN Abort(500, sess)
                            ELSE Resp(200, repr, [DB EXCEPT !.tasks = flushed], sess)
                 ELSE Abort(403, sess)

create_task(sess, json) ==
    IF sess # None THEN create_task_view(sess, json) ELSE Abort(401, sess)

get_task_view(sess, task_id) ==
    LET uid == The(sess)
    IN  IF uid \notin DOMAIN users \/ task_id \notin DOMAIN tasks THEN Abort(404, sess)
        ELSE IF tasks[task_id].project_id \notin DOMAIN projects THEN Abort(500, sess)
        ELSE IF Obj("User", uid) \in Team(memberships, tasks[task_id].project_id)
               THEN LET repr == Task_full_repr(tasks, task_id)
                    IN  IF repr = AttributeError THEN Abort(500, sess)
                        ELSE Resp(200, repr, DB, sess)
        ELSE Abort(403, sess)

get_task(sess, task_id) ==
    IF sess # None THEN get_task_view(sess, task_id) ELSE Abort(401, sess)

update_task_view(sess, task_id, json) ==
    LET uid == The(sess)
    IN  IF uid \notin DOMAIN users \/ task_id \notin DOMAIN tasks THEN Abort(404, sess)
        ELSE LET level == get_access_level(memberships, uid, tasks[task_id].project_id)
             IN  IF level = None THEN Abort(403, sess)
                 ELSE IF AtLeast(The(level), EDITOR)
                   THEN LET flushed == [tasks EXCEPT ![task_id] =
                                           Patch(@, json, {"title", "is_done"})]
                            repr == Task_full_repr(flushed, task_id)
                        IN  IF repr = AttributeError THEN Abort(500, sess)
                            ELSE Resp(200, repr, [DB EXCEPT !.tasks = flushed], sess)
                 \* no else branch: the view returns None, which Flask refuses
                 ELSE Abort(500, sess)

update_task(sess, task_id, json) ==
    IF sess # None THEN update_task_view(sess, task_id, json) ELSE Abort(401, sess)

\* Mutant of DeleteTask: the subtasks are detached and the row is kept.
DeleteTask_keeps_row(T, id) ==
    [k \in DOMAIN T |->
        IF k \in Subtasks(T, id) THEN [T[k] EXCEPT !.supertask_id = None] ELSE T[k]]

\* session.delete(task): the subtasks' supertask_id is set to NULL.
DeleteTask(T, id) ==
    LET rest == Remove(T, id)
    IN  [k \in DOMAIN rest |->
            IF k \in Subtasks(T, id) THEN [rest[k] EXCEPT !.supertask_id = None]
            ELSE rest[k]]

delete_task_view(sess, task_id) ==
    LET uid == The(sess)
    IN  IF uid \notin DOMAIN users \/ task_id \notin DOMAIN tasks THEN Abort(404, sess)
        ELSE LET level == get_access_level(memberships, uid, tasks[task_id].project_id)
             IN  IF level = None THEN Abort(403, sess)
                 ELSE IF AtLeast(The(level), EDITOR)
                   THEN Resp(200, OKBody, [DB EXCEPT !.tasks = DeleteTask(tasks, task_id)], sess)
                 ELSE Abort(403, sess)

delete_task(sess, task_id) ==
    IF sess # None THEN delete_task_view(sess, task_id) ELSE Abort(401, sess)

\* ------------------------------------------------------------- projects
\* models.Project(**json) with the creator's membership as MANAGER; the
\* representation is built after the flush and before the commit.
create_project_view(sess, json) ==
    LET uid == The(sess)
    IN  IF uid \notin DOMAIN users THEN Abort(404, sess)
        ELSE LET pid == NextId(projects)
                 P == Insert(projects, pid,
                             [title |-> json.title, default_access_level_int |-> READER])
                 M == Insert(memberships, NextId(memberships),
                             [user_id |-> uid, project_id |-> pid,
                              access_level_int |-> MANAGER])
                 repr == Project_full_repr(P, tasks, M, pid)
             IN  IF repr = AttributeError THEN Abort(500, sess)
                 ELSE Resp(200, repr, [DB EXCEPT !.projects = P, !.memberships = M], sess)

create_project(sess, json) ==
    IF sess # None THEN create_project_view(sess, json) ELSE Abort(401, sess)

get_project_view(sess, project_id) ==
    LET uid == The(sess)
    IN  IF uid \notin DOMAIN users \/ project_id \notin DOMAIN projects THEN Abort(404, sess)
        ELSE IF Obj("User", uid) \in Team(memberships, project_id)
               THEN LET repr == Project_full_repr(projects, tasks, memberships, project_id)
                    IN  IF repr = AttributeError THEN Abort(500, sess)
                        ELSE Resp(200, repr, DB, sess)
        ELSE Abort(403, sess)

get_project(sess, project_id) ==
    IF sess # None THEN get_project_view(sess, project_id) ELSE Abort(401, sess)

\* update_project is not wrapped by require_login: without a session key
\* flask.session['user_id'] raises KeyError.
update_project(sess, project_id, json) ==
    IF sess = None THEN Abort(500, sess)
    ELSE LET uid == The(sess)
         IN  IF uid \notin DOMAIN users \/ project_id \notin DOMAIN projects
               THEN Abort(404, sess)
             ELSE LET level == get_access_level(memberships, uid, project_id)
                  IN  IF level = None THEN Abort(403, sess)
                      ELSE IF AtLeast(The(level), MANAGER)
                        THEN LET P == [projects EXCEPT ![project_id] =
                                         Patch(@, json, {"title", "default_access_level_int"})]
                                 repr == Project_full_repr(P, tasks, memberships, project_id)
                             IN  IF repr = AttributeError THEN Abort(500, sess)
                                 ELSE Resp(200, repr, [DB EXCEPT !.projects = P], sess)
                      \* no else branch
                      ELSE Abort(500, sess)

\* session.delete(project): the project_id of its tasks and memberships is
\* set to NULL, which both columns refuse.
delete_project_view(sess, project_id) ==
    LET uid == The(sess)
    IN  IF uid \notin DOMAIN users \/ project_id \notin DOMAIN projects THEN Abort(404, sess)
        ELSE LET level == get_access_level(memberships, uid, project_id)
             IN  IF level = None THEN Abort(403, sess)
                 ELSE IF AtLeast(The(level), MANAGER)
                   THEN IF ProjectTasks(tasks, project_id) # {}
                           \/ Team(memberships, project_id) # {}
                          THEN Abort(500, sess)
                        ELSE Resp(200, OKBody,
                                  [DB EXCEPT !.projects = Remove(projects, project_id)], sess)
                 \* no else branch
                 ELSE Abort(500, sess)

delete_project(sess, project_id) ==
    IF sess # None THEN delete_project_view(sess, project_id) ELSE Abort(401, sess)

\* ------------------------------------------------------------- users
\* create_user: the email column is unique.
create_user(sess, json) ==
    LET uid == NextId(users)
        U == Insert(users, uid, [name |-> json.name, email |-> json.email,
                                 password_hash |-> json.cleartext_password])
        repr == User_full_repr(U, memberships, uid)
    IN  IF \E u \in DOMAIN users : users[u].email = json.email THEN Abort(500, sess)
        ELSE IF repr = AttributeError THEN Abort(500, sess)
        ELSE Resp(200, repr, [DB EXCEPT !.users = U], sess)

get_user(sess, user_id) ==
    IF sess = None THEN Abort(401, sess)
    ELSE IF user_id \notin DOMAIN users THEN Abort(404, sess)
    ELSE LET repr == User_full_repr(users, memberships, user_id)
         IN  IF repr = AttributeError THEN Abort(500, sess)
             ELSE Resp(200, repr, DB, sess)

update_user_view(sess, json) ==
    LET uid == The(sess)
    IN  IF uid \notin DOMAIN users THEN Abort(404, sess)
        ELSE LET U == [users EXCEPT ![uid] = Patch(@, json, {"name", "email"})]
                 repr == User_full_repr(U, memberships, uid)
             IN  IF \E u \in DOMAIN users \ {uid} : users[u].email = U[uid].email
                   THEN Abort(500, sess)
                 ELSE IF repr = AttributeError THEN Abort(500, sess)
                 ELSE Resp(200, repr, [DB EXCEPT !.users = U], sess)

update_user(sess, json) ==
    IF sess # None THEN update_user_view(sess, json) ELSE Abort(401, sess)

\* delete_user: the session key goes first; session.delete(user) sets the
\* user_id of the user's memberships to NULL, which the column refuses.
delete_user_view(sess) ==
    LET uid == The(sess)
    IN  IF uid \notin DOMAIN users THEN Abort(404, sess)
        ELSE IF UserProjects(memberships, uid) # {} THEN Abort(500, None)
        ELSE Resp(200, OKBody, [DB EXCEPT !.users = Remove(users, uid)], None)

delete_user(sess) ==
    IF sess # None THEN delete_user_view(sess) ELSE Abort(401, sess)

\* ------------------------------------------------------ invite and kick
\* [session.get(models.User, user_id) for user_id in flask.request.json]
Party(U, ids) == {IF id \in DOMAIN U THEN Obj("User", id) ELSE Obj("NoneType", id) : id \in ids}

\* project.team.update(party) and the flush: the collection holds
\* Membership objects and takes no other.
team_update(team, party) ==
    IF \E o \in party : o.cls # "Membership" THEN [raised |-> TRUE, team |-> team]
    ELSE [raised |-> FALSE, team |-> team \cup party]

\* project.team.difference_update(party): discards the members of party
\* that are in the collection.
team_difference_update(team, party) == team \ party

\* Mutant of invite_view: a manager's invite stores a READER membership for
\* every user of the list, without looking for one already stored.
invite_view_storing(sess, project_id, ids) ==
    LET uid == The(sess)
        new == ids \cap DOMAIN users
    IN  IF uid \notin DOMAIN users \/ project_id \notin DOMAIN projects THEN Abort(404, sess)
        ELSE IF ~ \E level \in MemberLevels_of(memberships, uid, project_id) :
                      level >= MANAGER
          THEN Abort(403, sess)
        ELSE IF new = {} THEN Abort(500, sess)
        ELSE Resp(200, OKBody,
                  [DB EXCEPT !.memberships =
                      Insert(memberships, NextId(memberships),
                             [user_id |-> The(new), project_id |-> project_id,
                              access_level_int |-> READER])],
                  sess)

invite_view(sess, project_id, ids) ==
    LET uid == The(sess)
    IN  IF uid \notin DOMAIN users \/ project_id \notin DOMAIN projects THEN Abort(404, sess)
        ELSE LET level == get_access_level(memberships, uid, project_id)
             IN  IF level = None THEN Abort(403, sess)
                 ELSE IF AtLeast(The(level), MANAGER)
                   THEN LET updated == team_update(Team(memberships, project_id),
                                                   Party(users, ids))
                            repr == Project_full_repr(projects, tasks, memberships, project_id)
                        IN  IF updated.raised THEN Abort(500, sess)
                            ELSE IF repr = AttributeError THEN Abort(500, sess)
                            ELSE Resp(200, repr, DB, sess)
                 \* no else branch
                 ELSE Abort(500, sess)

invite(sess, project_id, ids) ==
    IF sess # None THEN invite_view(sess, project_id, ids) ELSE Abort(401, sess)

kick_view(sess, project_id, ids) ==
    LET uid == The(sess)
    IN  IF uid \notin DOMAIN users \/ project_id \notin DOMAIN projects THEN Abort(404, sess)
        ELSE LET level == get_access_level(memberships, uid, project_id)
             IN  IF level = None THEN Abort(403, sess)
                 ELSE IF AtLeast(The(level), MANAGER)
                   THEN LET before == Team(memberships, project_id)
                            team == team_difference_update(before, Party(users, ids))
                            \* a membership taken out of the team loses its project_id
                            M == [m \in {k \in DOMAIN memberships :
                                           Obj("Membership", k) \notin before \ team}
                                   |-> memberships[m]]
                            repr == Project_full_repr(projects, tasks, M, project_id)
                        IN  IF before # team THEN Abort(500, sess)
                            ELSE IF repr = AttributeError THEN Abort(500, sess)
                            ELSE Resp(200, repr, [DB EXCEPT !.memberships = M], sess)
                 \* no else branch
                 ELSE Abort(500, sess)

kick(sess, project_id, ids) ==
    IF sess # None THEN kick_view(sess, project_id, ids) ELSE Abort(401, sess)

\* ------------------------------------------------------ the state machine
\* The ids a request may name: those the tables can hold, and one more for
\* users (a project or task id that is not stored exists below the bound).
TaskIds == 1..MaxTasks

ProjectIds == 1..MaxProjects

UserIds == 1..(MaxUsers + 1)

\* The cookies a client may hold: none, or the id of a user who logged in.
Sessions == {None} \cup {{u} : u \in UserIds}

TaskBodies ==
    [project_id : ProjectIds, supertask_id : {None} \cup {{t} : t \in TaskIds},
     title : Titles]

\* project_id is a key update_task does not copy.
TaskPatches == [title : Titles] \cup [project_id : ProjectIds]

ProjectPatches == [title : ProjectTitles] \cup [default_access_level_int : AccessLevel]

UserBodies == [name : Names, email : Emails, cleartext_password : Passwords]

UserPatches == [name : Names] \cup [email : Emails]

Parties == {ids \in SUBSET UserIds : Cardinality(ids) <= 1}

\* A database filled through the models, the way
\* test_models.TestModels.test_write fills one: two users, two projects and
\* memberships, one per pair (no endpoint commits a project or a
\* membership, so these rows are the ones the requests work on).  User 1
\* manages project 1 and edits project 2; user 2 is no member of project 1
\* (level 0) or holds the level given.  Tasks come from create_task.
SeedUsers ==
    (1 :> [name |-> "n1", email |-> "e1", password_hash |-> "pw1"])
    @@ (2 :> [name |-> "n2", email |-> "e2", password_hash |-> "pw2"])

SeedProjects ==
    (1 :> [title |-> "p1", default_access_level_int |-> READER])
    @@ (2 :> [title |-> "p2", default_access_level_int |-> READER])

SeedMemberships(level) ==
    LET own == (1 :> [user_id |-> 1, project_id |-> 1, access_level_int |-> MANAGER])
               @@ (2 :> [user_id |-> 1, project_id |-> 2, access_level_int |-> EDITOR])
    IN  IF level \in AccessLevel
          THEN own @@ (3 :> [user_id |-> 2, project_id |-> 1, access_level_int |-> level])
        ELSE own

Init ==
    /\ users = SeedUsers
    /\ projects = SeedProjects
    /\ tasks = <<>>
    /\ \E level \in {0} \cup AccessLevel : memberships = SeedMemberships(level)
    /\ session = None
    /\ last = [op |-> "init", sess |-> None, req |-> <<>>, status |-> 200, body |-> OKBody]

\* One request: the response's tables are what is stored afterwards, its
\* session key is the client's cookie afterwards.  `last` keeps the request
\* (the endpoint, the cookie and the ids it names) with the answer.
Handle(op, req, r) ==
    /\ users' = r.db.users
    /\ projects' = r.db.projects
    /\ tasks' = r.db.tasks
    /\ memberships' = r.db.memberships
    /\ session' = r.sess
    /\ last' = [op |-> op, sess |-> session, req |-> req,
                status |-> r.status, body |-> r.body]

\* What the hash verification of a login came to: the outcome of
\* PasswordHasher.verify and the value of verify_password, for the user of
\* the email given (none: no verification).
Verification(form, fault) ==
    LET found == {u \in DOMAIN users : users[u].email = form.email}
    IN  IF found = {} THEN [email |-> form.email, outcome |-> "none", verified |-> FALSE]
        ELSE LET hash == users[The(found)].password_hash
             IN  [email |-> form.email,
                  outcome |-> hasher_verify(hash, form.password, fault),
                  verified |-> verify_password(hash, form.password, fault)]

Login ==
    \E form \in [email : Emails, password : Passwords], fault \in BOOLEAN :
        Handle("login", Verification(form, fault), login(session, form, fault))

CreateTask ==
    \E json \in TaskBodies :
        /\ NextId(tasks) <= MaxTasks
        /\ Handle("create_task",
                  [project_id |-> json.project_id, supertask_id |-> json.supertask_id],
                  create_task(session, json))

GetTask ==
    \E task_id \in TaskIds :
        Handle("get_task", [id |-> task_id], get_task(session, task_id))

UpdateTask ==
    \E task_id \in TaskIds, json \in TaskPatches :
        Handle("update_task", [id |-> task_id], update_task(session, task_id, json))

DeleteTaskRequest ==
    \E task_id \in TaskIds :
        Handle("delete_task", [id |-> task_id], delete_task(session, task_id))

CreateProject ==
    \E json \in [title : ProjectTitles] :
        /\ NextId(projects) <= MaxProjects
        /\ Handle("create_project", <<>>, create_project(session, json))

GetProject ==
    \E project_id \in ProjectIds :
        Handle("get_project", [id |-> project_id], get_project(session, project_id))

UpdateProject ==
    \E project_id \in ProjectIds, json \in ProjectPatches :
        Handle("update_project", [id |-> project_id],
               update_project(session, project_id, json))

DeleteProject ==
    \E project_id \in ProjectIds :
        Handle("delete_project", [id |-> project_id], delete_project(session, project_id))

CreateUser ==
    \E json \in UserBodies :
        /\ NextId(users) <= MaxUsers
        /\ Handle("create_user", <<>>, create_user(session, json))

GetUser ==
    \E user_id \in UserIds :
        Handle("get_user", [id |-> user_id], get_user(session, user_id))

UpdateUser ==
    \E json \in UserPatches : Handle("update_user", <<>>, update_user(session, json))

DeleteUser ==
    Handle("delete_user", <<>>, delete_user(session))

Invite ==
    \E project_id \in ProjectIds, ids \in Parties :
        Handle("invite", [id |-> project_id, ids |-> ids],
               invite(session, project_id, ids))

Kick ==
    \E project_id \in ProjectIds, ids \in Parties :
        Handle("kick", [id |-> project_id, ids |-> ids],
               kick(session, project_id, ids))

Next ==
    \/ Login
    \/ CreateTask
    \/ GetTask
    \/ UpdateTask
    \/ DeleteTaskRequest
    \/ CreateProject
    \/ GetProject
    \/ UpdateProject
    \/ DeleteProject
    \/ CreateUser
    \/ GetUser
    \/ UpdateUser
    \/ DeleteUser
    \/ Invite
    \/ Kick

Spec == Init /\ [][Next]_vars

\* ------------------------------------------------------ what the claims use
\* The levels user uid holds in project pid (empty: not a member).
MemberLevels(uid, pid) == MemberLevels_of(memberships, uid, pid)

TaskOps == {"create_task", "update_task", "delete_task"}

ProjectOps == {"update_project", "delete_project", "invite", "kick"}

\* The level the claims require of a request.
RequiredLevel(op) == IF op \in TaskOps THEN EDITOR ELSE MANAGER

\* The request names a stored target: the project of create_task and of the
\* project endpoints, the task of update_task and delete_task.
TargetExists(l) ==
    CASE l.op = "create_task" -> l.req.project_id \in DOMAIN projects
      [] l.op \in {"update_task", "delete_task", "get_task"} -> l.req.id \in DOMAIN tasks
      [] OTHER -> l.req.id \in DOMAIN projects

\* The project the request is about (of a request whose target exists).
TargetProject(l) ==
    CASE l.op = "create_task" -> l.req.project_id
      [] l.op \in {"update_task", "delete_task", "get_task"} -> tasks[l.req.id].project_id
      [] OTHER -> l.req.id

ClientExists(l) == l.sess # None /\ The(l.sess) \in DOMAIN users

\* The logged-in user of request l is no member of the target project or
\* holds a level below the one required.
BelowRequired(l) ==
    \A level \in MemberLevels(The(l.sess), TargetProject(l)) : level < RequiredLevel(l.op)

\* C1: every stored task that has a supertask belongs to the project of
\* that supertask.
C1_TaskInSupertaskProject ==
    \A t \in DOMAIN tasks :
        \A s \in tasks[t].supertask_id \cap DOMAIN tasks :
            tasks[s].project_id = tasks[t].project_id

\* C2: there is at most one membership row for any (user, project) pair.
C2_MembershipUnique ==
    \A m1, m2 \in DOMAIN memberships :
        (/\ memberships[m1].user_id = memberships[m2].user_id
         /\ memberships[m1].project_id = memberships[m2].project_id) => m1 = m2

\* A manager has invited a user who is already a member of the project.
C2_Witness ==
    /\ last.op = "invite"
    /\ last.sess # None
    /\ MemberLevels(The(last.sess), last.req.id) = {MANAGER}
    /\ last.req.ids # {}
    /\ \A u \in last.req.ids : MemberLevels(u, last.req.id) # {}
    /\ last.status = 500

\* C3: a request of a logged-in user whose level on the target project is
\* below the required one (EDITOR for the task endpoints, MANAGER for the
\* project endpoints; no membership counts as below) is not answered with
\* success and leaves tasks, projects and memberships as they were.
C3_BelowRequiredHasNoEffect ==
    [][(/\ last'.op \in TaskOps \cup ProjectOps
        /\ last'.sess # None
        /\ TargetExists(last')
        /\ BelowRequired(last'))
       => (/\ last'.status # 200
           /\ tasks' = tasks
           /\ projects' = projects
           /\ memberships' = memberships)]_vars

\* A READER of the project asked to create a task in it and was refused,
\* and an EDITOR had stored a task before.
C3_Witness ==
    /\ last.op = "create_task"
    /\ last.sess # None
    /\ MemberLevels(The(last.sess), last.req.project_id) = {READER}
    /\ last.status = 403
    /\ tasks # <<>>

\* C4: the seven endpoints that check an access level answer 403 when the
\* logged-in user exists, the target exists and the user is no member of
\* the project or holds a level below the required one.
C4_BelowRequiredIs403 ==
    [][(/\ last'.op \in TaskOps \cup ProjectOps
        /\ ClientExists(last')
        /\ TargetExists(last')
        /\ BelowRequired(last'))
       => last'.status = 403]_vars

\* C5: every endpoint other than login and create_user answers 401 to a
\* request without a session key and stores nothing.
C5_NotLoggedInIs401 ==
    [][(last'.op \notin {"login", "create_user"} /\ last'.sess = None)
       => (last'.status = 401 /\ DB' = DB)]_vars

\* The user of request l exists and holds the level its endpoint requires.
Authorized(l) ==
    /\ ClientExists(l)
    /\ TargetExists(l)
    /\ \E level \in MemberLevels(The(l.sess), TargetProject(l)) : level >= RequiredLevel(l.op)

\* Request l, of a logged-in client, names a record that is not stored: its
\* own user, the project, task or user of the URL or body, the supertask of
\* a create_task or a user of the list of an invite or kick (the last two
\* of a request that is otherwise in order).
MissingRecord(l) ==
    \/ l.op # "get_user" /\ The(l.sess) \notin DOMAIN users
    \/ l.op = "get_user" /\ l.req.id \notin DOMAIN users
    \/ l.op \in {"get_task", "update_task", "delete_task"} /\ l.req.id \notin DOMAIN tasks
    \/ l.op \in {"get_project"} \cup ProjectOps /\ l.req.id \notin DOMAIN projects
    \/ l.op = "create_task" /\ l.req.project_id \notin DOMAIN projects
    \/ l.op = "create_task" /\ Authorized(l) /\ ~(l.req.supertask_id \subseteq DOMAIN tasks)
    \/ l.op \in {"invite", "kick"} /\ Authorized(l) /\ ~(l.req.ids \subseteq DOMAIN users)

\* C6: a request of a logged-in client that names a record that is not
\* stored is answered 404 and stores nothing.
C6_MissingRecordIs404 ==
    [][(/\ last'.op \notin {"login", "create_user"}
        /\ last'.sess # None
        /\ MissingRecord(last'))
       => (last'.status = 404 /\ DB' = DB)]_vars

\* C7: a get_task (get_project) that follows a successful create_task
\* (create_project) of the same logged-in user, for the id it returned,
\* succeeds and returns the body the create returned.
C7_CreateThenRead ==
    [][(/\ last.status = 200
        /\ \/ last.op = "create_task" /\ last'.op = "get_task"
           \/ last.op = "create_project" /\ last'.op = "get_project"
        /\ last'.sess = last.sess
        /\ last'.req.id = last.body.id)
       => (last'.status = 200 /\ last'.body = last.body)]_vars

\* C8: right after delete_task, delete_project or delete_user answered OK
\* for the record with id i, get_task, get_project or get_user for i is
\* answered 404 whatever user the client is logged in as.
C8_DeleteThenRead ==
    last.status = 200 =>
        /\ last.op = "delete_task"
             => \A s \in Sessions \ {None} : get_task(s, last.req.id).status = 404
        /\ last.op = "delete_project"
             => \A s \in Sessions \ {None} : get_project(s, last.req.id).status = 404
        /\ last.op = "delete_user"
             => \A s \in Sessions \ {None} : get_user(s, The(last.sess)).status = 404

\* An EDITOR has deleted a task while another task was stored.
C8_Witness ==
    /\ last.op = "delete_task"
    /\ last.status = 200
    /\ tasks # <<>>

\* The check of lines 81, 114, 133 (EDITOR) and 184, 203, 273, 291 (MANAGER)
\* for user uid on project pid with the memberships M.
Passes(M, uid, pid, required) ==
    LET level == get_access_level(M, uid, pid)
    IN  level # None /\ AtLeast(The(level), required)

\* The check of lines 100 and 171 (get_task, get_project).
PassesRead(M, uid, pid) == Obj("User", uid) \in Team(M, pid)

\* C9: a check that passes for a member at one level passes for the same
\* member at every higher level: for every membership stored, both levels
\* the writing endpoints require, and the check of the reading endpoints.
C9_LevelMonotonic ==
    \A m \in DOMAIN memberships, required \in {EDITOR, MANAGER}, higher \in AccessLevel :
        LET row == memberships[m]
            raised == [memberships EXCEPT ![m].access_level_int = higher]
        IN  higher > row.access_level_int
            => /\ Passes(memberships, row.user_id, row.project_id, required)
                  => Passes(raised, row.user_id, row.project_id, required)
               /\ PassesRead(memberships, row.user_id, row.project_id)
                  => PassesRead(raised, row.user_id, row.project_id)

\* A MANAGER has passed the EDITOR check of create_task, and an EDITOR of
\* another project is stored whose level can be raised.
C9_Witness ==
    /\ last.op = "create_task"
    /\ last.status = 200
    /\ MemberLevels(The(last.sess), last.req.project_id) = {MANAGER}
    /\ \E m \in DOMAIN memberships : memberships[m].access_level_int = EDITOR

\* C10: a logged-in user who is a member of a project, at any level, is not
\* answered 403 by get_project for it nor by get_task for one of its tasks.
C10_MemberMayRead ==
    [][(/\ last'.op \in {"get_project", "get_task"}
        /\ ClientExists(last')
        /\ TargetExists(last')
        /\ MemberLevels(The(last'.sess), TargetProject(last')) # {})
       => last'.status # 403]_vars

\* C11: a login whose hash verification ends in anything but success
\* (a mismatch, another verification error, an invalid stored hash) has
\* verify_password return False, is answered 403 and leaves the session as
\* it was.
C11_LoginOnlyWhenVerified ==
    [][(last'.op = "login" /\ last'.req.outcome \notin {"ok", "none"})
       => (/\ last'.req.verified = FALSE
           /\ last'.status = 403
           /\ session' = session)]_vars

====
